---- MODULE Spec2Model ----
(***************************************************************************)
(* Scroll-synchronised navigation engine of the portfolio application:     *)
(*   - useScrollProgress / useScrollSection  (src/hooks/useScrollProgress) *)
(*   - Navigation                (src/components/Navigation/Navigation.tsx)*)
(*   - HomePage                  (src/pages/Home/HomePage.tsx)             *)
(* The browser window (scroll offset, viewport, document height, element   *)
(* rectangles, listener registry) is modelled explicitly; JavaScript       *)
(* numbers are modelled as exact rationals extended with NaN and the two   *)
(* infinities, so that a division by zero is visible.                      *)
(***************************************************************************)
EXTENDS Integers, Sequences, FiniteSets, TLC

VARIABLES
    scrollY,          \* window.scrollY
    innerHeight,      \* window.innerHeight
    scrollHeight,     \* document.documentElement.scrollHeight
    dom,              \* id -> [present, top, height]: elements with an id
    scrollListeners,  \* handlers registered on window for 'scroll', in order
    resizeListeners,  \* handlers registered on window for 'resize', in order
    pathname,         \* location.pathname
    spMounted,        \* a component using useScrollProgress is mounted
    scrollProgress,   \* useScrollProgress: useState(0)
    ssMounted,        \* a component using useScrollSection is mounted
    sectionId,        \* useScrollSection: the sectionId argument
    progress,         \* useScrollSection: useState(0)
    navMounted,       \* Navigation is mounted
    scrolled,         \* Navigation: useState(false)
    activeSection,    \* Navigation: useState('hero')
    hash,             \* location.hash ("" or "#" followed by an id)
    clickListeners,   \* handlers registered on document for 'click', in order
    timers,           \* pending setTimeout callbacks of HomePage, in firing order
    requests,         \* scroll requests issued so far, oldest first
    liveTimers,       \* how many of the newest pending timers the mounted HomePage set
    tasks,            \* TaskFlowDemo: useState(initialTasks)
    draggedTask,      \* TaskFlowDemo: useState(null)
    step,             \* CheckoutDemo: useState(1)
    formData,         \* CheckoutDemo: useState({email, cardNumber, expiry, cvv})
    heroMounted,      \* Hero is mounted
    displayedText,    \* Hero: useState('')
    currentIndex,     \* Hero: useState(0)
    showCursor,       \* Hero: useState(true)
    typingTimeout,    \* Hero: pending setTimeout callbacks, each with its closure's index
    cursorInterval,   \* Hero: number of running setInterval timers
    users,            \* AdminPanelDemo: useState(initialUsers)
    searchTerm,       \* AdminPanelDemo: useState('')
    selectedRole,     \* AdminPanelDemo: useState('all')
    blocks,           \* LandingBuilderDemo: useState(initialBlocks)
    selectedBlock,    \* LandingBuilderDemo: useState(null)
    now,              \* Date.now(), in milliseconds
    rootStyle         \* document.documentElement.style: the value of each custom property

windowVars == <<scrollY, innerHeight, scrollHeight, dom>>
listenerVars == <<scrollListeners, resizeListeners>>
spVars == <<spMounted, scrollProgress>>
ssVars == <<ssMounted, sectionId, progress>>
navVars == <<navMounted, scrolled, activeSection>>
homeVars == <<hash, clickListeners, timers, requests, liveTimers>>
kanbanVars == <<tasks, draggedTask>>
checkoutVars == <<step, formData>>
heroVars == <<heroMounted, displayedText, currentIndex, showCursor, typingTimeout,
              cursorInterval>>
adminVars == <<users, searchTerm, selectedRole>>
builderVars == <<blocks, selectedBlock, now>>
demoVars == <<kanbanVars, checkoutVars, heroVars, adminVars, builderVars>>
themeVars == <<rootStyle>>
engineVars == <<windowVars, listenerVars, pathname, spVars, ssVars, navVars, homeVars,
                themeVars>>
vars == <<scrollY, innerHeight, scrollHeight, dom, scrollListeners,
          resizeListeners, pathname, spMounted, scrollProgress, ssMounted,
          sectionId, progress, navMounted, scrolled, activeSection,
          hash, clickListeners, timers, requests, liveTimers,
          tasks, draggedTask, step, formData, heroMounted, displayedText,
          currentIndex, showCursor, typingTimeout, cursorInterval, users,
          searchTerm, selectedRole, blocks, selectedBlock, now, rootStyle>>

----------------------------------------------------------------------------
(* Bounds of the small-integer layouts used for the two progress hooks.    *)
MaxInner == 2
MaxDoc == 5
MaxTop == 3
MaxHeight == 2
(* Largest number of registered sections present in a partial home layout. *)
MaxMounted == 3

----------------------------------------------------------------------------
(* JavaScript numbers.  A value is n/d with d >= 0 in lowest terms;        *)
(* d = 0 encodes the non-finite values: 0/0 NaN, 1/0 +Infinity,            *)
(* -1/0 -Infinity.                                                         *)

Abs(a) == IF a < 0 THEN -a ELSE a

Sign(a) == IF a > 0 THEN 1 ELSE IF a < 0 THEN -1 ELSE 0

RECURSIVE GCD(_, _)
GCD(a, b) == IF b = 0 THEN a ELSE GCD(b, a % b)

Num(a) == [n |-> a, d |-> 1]

NaN == [n |-> 0, d |-> 0]

PosInfinity == [n |-> 1, d |-> 0]

NegInfinity == [n |-> -1, d |-> 0]

IsNaN(x) == x.d = 0 /\ x.n = 0

IsFinite(x) == x.d > 0

\* a / b for integer-valued operands, as IEEE division decides it
JSDiv(a, b) ==
    IF b = 0 THEN [n |-> Sign(a), d |-> 0]
    ELSE LET g == GCD(Abs(a), Abs(b))
         IN  [n |-> (Sign(b) * a) \div g, d |-> Abs(b) \div g]

\* x <= y on non-NaN values (false as soon as one side is NaN)
Leq(x, y) ==
    IF IsNaN(x) \/ IsNaN(y) THEN FALSE
    ELSE IF x.d = 0 /\ y.d = 0 THEN x.n <= y.n
    ELSE IF x.d = 0 THEN x.n < 0
    ELSE IF y.d = 0 THEN y.n > 0
    ELSE x.n * y.d <= y.n * x.d

\* Math.min / Math.max: NaN if either argument is NaN
MathMin(x, y) ==
    IF IsNaN(x) \/ IsNaN(y) THEN NaN ELSE IF Leq(x, y) THEN x ELSE y

MathMax(x, y) ==
    IF IsNaN(x) \/ IsNaN(y) THEN NaN ELSE IF Leq(x, y) THEN y ELSE x

----------------------------------------------------------------------------
(* The browser window.                                                     *)

Max(a, b) == IF a >= b THEN a ELSE b

Min(a, b) == IF a <= b THEN a ELSE b

\* largest scroll offset the browser allows for a layout
MaxScrollTop(sh, ih) == Max(0, sh - ih)

Absent == [present |-> FALSE, top |-> 0, height |-> 0]

Element(t, h) == [present |-> TRUE, top |-> t, height |-> h]

\* element.getBoundingClientRect(): viewport-relative rectangle
getBoundingClientRect(el, y) ==
    [top |-> el.top - y, bottom |-> el.top - y + el.height, height |-> el.height]

\* the layout snapshot a handler reads
Window(y, ih, sh, d) == [scrollY |-> y, innerHeight |-> ih, scrollHeight |-> sh, dom |-> d]

\* window.addEventListener(type, h): h is a fresh closure, appended
addEventListener(listeners, h) == Append(listeners, h)

\* mutant: the cleanup passes a closure that was never registered
removeEventListener_otherClosure(listeners, h) == listeners

RECURSIVE removeEventListener(_, _)
\* window.removeEventListener(type, h): the registration of h is dropped
removeEventListener(listeners, h) ==
    IF listeners = <<>> THEN <<>>
    ELSE IF Head(listeners) = h THEN Tail(listeners)
    ELSE <<Head(listeners)>> \o removeEventListener(Tail(listeners), h)

----------------------------------------------------------------------------
(* useScrollProgress                                                       *)

\* the closure calculateScrollProgress created by one run of the effect
ProgressHandler == [owner |-> "useScrollProgress", isHomePage |-> FALSE, sectionId |-> ""]

\* mutant: the viewport height is not subtracted from the document height
calculateScrollProgress_fullHeight(y, ih, sh) ==
    MathMin(JSDiv(y, sh), Num(1))

\* the value calculateScrollProgress hands to setScrollProgress
calculateScrollProgress(y, ih, sh) ==
    LET windowHeight == ih
        documentHeight == sh - windowHeight
        scrolledPx == y
    IN  MathMin(JSDiv(scrolledPx, documentHeight), Num(1))

----------------------------------------------------------------------------
(* useScrollSection                                                        *)

\* the closure calculateProgress created by one run of the effect for id s
SectionHandler(s) == [owner |-> "useScrollSection", isHomePage |-> FALSE, sectionId |-> s]

\* mutant: the traversal starts when the section's top reaches the top edge
sectionProgressValue_startAtTop(el, y, ih) ==
    LET sectionTop == el.top
        sectionHeight == el.height
    IN  MathMax(Num(0), MathMin(Num(1), JSDiv(y - sectionTop, sectionHeight)))

\* the value calculateProgress hands to setProgress for a present element
sectionProgressValue(el, y, ih) ==
    LET rect == getBoundingClientRect(el, y)
        sectionTop == rect.top + y
        sectionHeight == rect.height
        windowHeight == ih
        start == sectionTop - windowHeight
        end == sectionTop + sectionHeight
        scrollRange == end - start
        currentScroll == y - start
    IN  MathMax(Num(0), MathMin(Num(1), JSDiv(currentScroll, scrollRange)))

\* mutant: a missing element resets the progress instead of keeping it
calculateProgress_resetsWhenAbsent(s, old, w) ==
    IF ~w.dom[s].present THEN Num(0)
    ELSE sectionProgressValue(w.dom[s], w.scrollY, w.innerHeight)

\* calculateProgress: the new value of the progress state
calculateProgress(s, old, w) ==
    IF ~w.dom[s].present THEN old
    ELSE sectionProgressValue(w.dom[s], w.scrollY, w.innerHeight)

----------------------------------------------------------------------------
(* Navigation                                                              *)

navItems ==
    << [id |-> "hero", label |-> "Home"],
       [id |-> "work", label |-> "Work"],
       [id |-> "experience", label |-> "Experience"],
       [id |-> "skills", label |-> "Skills"],
       [id |-> "blog", label |-> "Blog"],
       [id |-> "contact", label |-> "Contact"] >>

NavIds == {navItems[i].id : i \in 1..Len(navItems)}

\* the closure handleScroll created by one run of the effect
NavHandler(home) == [owner |-> "Navigation", isHomePage |-> home, sectionId |-> ""]

\* the probe line: the literal of the test in handleScroll
ProbeOffset == 150

\* window.scrollY > 50 decides the scrolled flag
ScrolledThreshold == 50

\* mutant: only the top of the rectangle is tested
probeHit_topOnly(id, w) ==
    /\ w.dom[id].present
    /\ getBoundingClientRect(w.dom[id], w.scrollY).top <= ProbeOffset

\* rect.top <= 150 && rect.bottom >= 150 for the element with this id, if any
probeHit(id, w) ==
    /\ w.dom[id].present
    /\ LET rect == getBoundingClientRect(w.dom[id], w.scrollY)
       IN  rect.top <= ProbeOffset /\ rect.bottom >= ProbeOffset

\* const sections = navItems.map(item => item.id)
NavSections == [i \in 1..Len(navItems) |-> navItems[i].id]

RECURSIVE findActiveIn_lastMatch(_, _, _, _)
\* mutant: the loop has no break, the last section on the probe line wins
findActiveIn_lastMatch(sections, i, old, w) ==
    IF i > Len(sections) THEN old
    ELSE IF probeHit(sections[i], w)
         THEN findActiveIn_lastMatch(sections, i + 1, sections[i], w)
    ELSE findActiveIn_lastMatch(sections, i + 1, old, w)

RECURSIVE findActiveIn_stopsAtMissing(_, _, _, _)
\* mutant: a section without an element ends the loop
findActiveIn_stopsAtMissing(sections, i, old, w) ==
    IF i > Len(sections) THEN old
    ELSE IF ~w.dom[sections[i]].present THEN old
    ELSE IF probeHit(sections[i], w) THEN sections[i]
    ELSE findActiveIn_stopsAtMissing(sections, i + 1, old, w)

RECURSIVE findActiveIn(_, _, _, _)
\* the for loop of handleScroll over the array sections, from position i on:
\* the first section on the probe line, else the value kept
findActiveIn(sections, i, old, w) ==
    IF i > Len(sections) THEN old
    ELSE IF probeHit(sections[i], w) THEN sections[i]
    ELSE findActiveIn(sections, i + 1, old, w)

\* the loop as handleScroll runs it: over the ids of navItems
findActive(i, old, w) == findActiveIn(NavSections, i, old, w)

\* mutant: the loop passes over the section that is active already
handleScroll_skipCurrent(home, old, w) ==
    [scrolled |-> w.scrollY > ScrolledThreshold,
     activeSection |->
         IF home
         THEN findActiveIn(SelectSeq(NavSections, LAMBDA id : id # old.activeSection),
                           1, old.activeSection, w)
         ELSE old.activeSection]

\* mutant: no section on the probe line clears the active section
handleScroll_resetOnMiss(home, old, w) ==
    [scrolled |-> w.scrollY > ScrolledThreshold,
     activeSection |-> IF home THEN findActive(1, "", w) ELSE old.activeSection]

\* handleScroll: the new [scrolled, activeSection]
handleScroll(home, old, w) ==
    [scrolled |-> w.scrollY > ScrolledThreshold,
     activeSection |-> IF home THEN findActive(1, old.activeSection, w)
                       ELSE old.activeSection]

----------------------------------------------------------------------------
(* Event dispatch: every registered handler runs, in registration order,   *)
(* against the same layout snapshot.                                       *)

ComponentState ==
    [scrollProgress |-> scrollProgress, progress |-> progress,
     scrolled |-> scrolled, activeSection |-> activeSection]

runHandler(h, st, w) ==
    IF h.owner = "useScrollProgress"
    THEN [st EXCEPT !.scrollProgress =
              calculateScrollProgress(w.scrollY, w.innerHeight, w.scrollHeight)]
    ELSE IF h.owner = "useScrollSection"
    THEN [st EXCEPT !.progress = calculateProgress(h.sectionId, st.progress, w)]
    ELSE LET r == handleScroll(h.isHomePage, st, w)
         IN  [st EXCEPT !.scrolled = r.scrolled, !.activeSection = r.activeSection]

RECURSIVE dispatch(_, _, _)
dispatch(listeners, st, w) ==
    IF listeners = <<>> THEN st
    ELSE dispatch(Tail(listeners), runHandler(Head(listeners), st, w), w)

Commit(st) ==
    /\ scrollProgress' = st.scrollProgress
    /\ progress' = st.progress
    /\ scrolled' = st.scrolled
    /\ activeSection' = st.activeSection

\* the user or a script scrolls to offset y: a 'scroll' event is delivered
ScrollEvent(y) ==
    /\ y \in 0..MaxScrollTop(scrollHeight, innerHeight)
    /\ scrollY' = y
    /\ Commit(dispatch(scrollListeners, ComponentState,
                       Window(y, innerHeight, scrollHeight, dom)))
    /\ UNCHANGED <<innerHeight, scrollHeight, dom, listenerVars, pathname,
                   spMounted, ssMounted, sectionId, navMounted, homeVars, demoVars, themeVars>>

\* the window is resized: new viewport and layout, a 'resize' event is delivered
ResizeEvent(ih, sh, d) ==
    /\ innerHeight' = ih
    /\ scrollHeight' = sh
    /\ dom' = d
    /\ scrollY' = Min(scrollY, MaxScrollTop(sh, ih))
    /\ Commit(dispatch(resizeListeners, ComponentState,
                       Window(Min(scrollY, MaxScrollTop(sh, ih)), ih, sh, d)))
    /\ UNCHANGED <<listenerVars, pathname, spMounted, ssMounted, sectionId, navMounted,
                   homeVars, demoVars, themeVars>>

\* the layout shifts (content loads, elements appear or go) without any event
Reflow(sh, d) ==
    /\ <<sh, d>> # <<scrollHeight, dom>>
    /\ scrollHeight' = sh
    /\ dom' = d
    /\ scrollY' = Min(scrollY, MaxScrollTop(sh, innerHeight))
    /\ UNCHANGED <<innerHeight, listenerVars, pathname, spVars, ssVars, navVars,
                   homeVars, demoVars, themeVars>>

----------------------------------------------------------------------------
(* HomePage (src/pages/Home/HomePage.tsx) and the scroll requests.  A       *)
(* request is recorded when it is issued; the smooth scroll it starts      *)
(* reaches the components as later scroll events.                          *)

\* the fragment "#id" of a link such as <Link to={`/#${item.id}`}>
Fragment(id) == "#" \o id

\* ids a fragment or an in-page anchor names here; "missing" is no element's id
FragmentIds == {"work", "blog", "missing"}

\* location.hash.substring(1): the id after the leading "#"
substring1(h) == CHOOSE id \in FragmentIds : Fragment(id) = h

\* document.getElementById(id) / document.querySelector('#' + id)
getElementById(d, id) == IF id \in DOMAIN d THEN d[id] ELSE Absent

\* a scroll request: the call that issued it and the id it targets
Request(via, id) == [via |-> via, id |-> id]

\* mutant: the optional chaining is dropped, the request is issued regardless
scrollIntoView_unguarded(log, via, d, id) == Append(log, Request(via, id))

\* element?.scrollIntoView({ behavior: 'smooth' }): nothing without an element
scrollIntoView(log, via, d, id) ==
    IF getElementById(d, id).present THEN Append(log, Request(via, id)) ELSE log

\* the closure handleSmoothScroll registered by HomePage's first effect
SmoothScrollHandler == [owner |-> "HomePage", isHomePage |-> TRUE, sectionId |-> ""]

\* mutant: the effect sets no timer
hashEffect_noTimer(ts, h) == ts

\* HomePage's second effect: if (location.hash) setTimeout(callback, 100)
hashEffect(ts, h) == IF h # "" THEN Append(ts, substring1(h)) ELSE ts

\* the outlet's page after a commit at a location with fragment h: HomePage's
\* click listener is added on mount and removed on unmount, and its second
\* effect runs on mount and on every later location while it stays mounted
HomePageCommit(wasMounted, isMounted, h) ==
    /\ clickListeners' =
         IF isMounted /\ ~wasMounted
         THEN addEventListener(clickListeners, SmoothScrollHandler)
         ELSE IF wasMounted /\ ~isMounted
         THEN removeEventListener(clickListeners, SmoothScrollHandler)
         ELSE clickListeners
    /\ timers' = IF isMounted THEN hashEffect(timers, h) ELSE timers
    /\ liveTimers' =
         IF isMounted
         THEN (IF wasMounted THEN liveTimers ELSE 0)
              + Len(hashEffect(timers, h)) - Len(timers)
         ELSE 0

RECURSIVE clickDispatch(_, _, _, _)
\* a click on an anchor with href "#id": every registered handleSmoothScroll
\* prevents the default action and scrolls the element into view, if any
clickDispatch(listeners, log, d, id) ==
    IF listeners = <<>> THEN log
    ELSE clickDispatch(Tail(listeners), scrollIntoView(log, "click", d, id), d, id)

----------------------------------------------------------------------------
(* ProjectDetail's theme (src/pages/ProjectDetail/ProjectDetail.tsx).      *)

IsProjectPath(p) == p # "/"

\* the route 'projects/:projectId'
ProjectPath(id) == "/projects/" \o id

PropertyNames == {"--project-primary", "--project-secondary", "--project-accent"}

\* getPropertyValue of a property that is not set
Unset == ""

NoStyle == [n \in PropertyNames |-> Unset]

\* undefined, as setProperty's string conversion spells it
Undefined == "undefined"

projectThemes ==
    "task-flow-ui" :> [primary |-> "#667eea", secondary |-> "#764ba2", accent |-> "#a5b4fc"]
    @@ "analytics-dashboard" :> [primary |-> "#f093fb", secondary |-> "#f5576c", accent |-> "#fda4af"]
    @@ "design-system" :> [primary |-> "#4facfe", secondary |-> "#00f2fe", accent |-> "#7dd3fc"]
    @@ "payment-flow" :> [primary |-> "#43e97b", secondary |-> "#38f9d7", accent |-> "#6ee7b7"]
    @@ "admin-panel" :> [primary |-> "#fa709a", secondary |-> "#fee140", accent |-> "#fbbf24"]
    @@ "landing-optimizer" :> [primary |-> "#30cfd0", secondary |-> "#330867", accent |-> "#a78bfa"]

\* the ids of the projects of the portfolio
ProjectIds == DOMAIN projectThemes

\* names an object literal inherits from Object.prototype
ObjectPrototypeKeys == {"constructor"}

\* the ids a location names: two projects, an id of no project, and an id
\* that is the name of an inherited member
RouteIds == {"task-flow-ui", "admin-panel", "unknown", "constructor"}

\* useParams(): the projectId of the location
projectIdOf(p) == CHOOSE id \in ProjectIds \cup RouteIds : ProjectPath(id) = p

\* projectId && projectThemes[projectId]: the lookup finds the own entries
\* and the inherited members
hasTheme(id) == id \in DOMAIN projectThemes \cup ObjectPrototypeKeys

\* projectThemes[id].primary etc.: an inherited member has no such field
themeOf(id) ==
    IF id \in DOMAIN projectThemes THEN projectThemes[id]
    ELSE [primary |-> Undefined, secondary |-> Undefined, accent |-> Undefined]

\* the effect's setup for projectId id
themeSetup(style, id) ==
    IF hasTheme(id)
    THEN [style EXCEPT !["--project-primary"] = themeOf(id).primary,
                       !["--project-secondary"] = themeOf(id).secondary,
                       !["--project-accent"] = themeOf(id).accent]
    ELSE style

\* the effect's cleanup: removeProperty of the three
themeCleanup(style) ==
    [style EXCEPT !["--project-primary"] = Unset,
                  !["--project-secondary"] = Unset,
                  !["--project-accent"] = Unset]

\* ProjectDetail across a commit: mounted at wasPath before (wasMounted) and
\* at isPath after (isMounted); the effect depends on projectId, its cleanup
\* runs before the next setup and on unmount
ProjectDetailCommit(wasMounted, wasPath, isMounted, isPath) ==
    rootStyle' =
        IF wasMounted /\ isMounted /\ wasPath = isPath THEN rootStyle
        ELSE IF wasMounted /\ isMounted
        THEN themeSetup(themeCleanup(rootStyle), projectIdOf(isPath))
        ELSE IF isMounted THEN themeSetup(rootStyle, projectIdOf(isPath))
        ELSE IF wasMounted THEN themeCleanup(rootStyle)
        ELSE rootStyle

----------------------------------------------------------------------------
(* Component lifecycles.                                                   *)

\* useScrollProgress: first render and the effect
SpMount ==
    /\ ~spMounted
    /\ spMounted' = TRUE
    /\ scrollProgress' = calculateScrollProgress(scrollY, innerHeight, scrollHeight)
    /\ scrollListeners' = addEventListener(scrollListeners, ProgressHandler)
    /\ resizeListeners' = addEventListener(resizeListeners, ProgressHandler)
    /\ UNCHANGED <<windowVars, pathname, ssVars, navVars, homeVars, demoVars, themeVars>>

\* useScrollProgress: the effect's cleanup
SpUnmount ==
    /\ spMounted
    /\ spMounted' = FALSE
    /\ scrollListeners' = removeEventListener(scrollListeners, ProgressHandler)
    /\ resizeListeners' = removeEventListener(resizeListeners, ProgressHandler)
    /\ UNCHANGED <<windowVars, pathname, scrollProgress, ssVars, navVars, homeVars, demoVars, themeVars>>

\* useScrollSection(s): first render (useState(0)) and the effect
SsMount(s) ==
    /\ ~ssMounted
    /\ ssMounted' = TRUE
    /\ sectionId' = s
    /\ progress' = calculateProgress(s, Num(0),
                                     Window(scrollY, innerHeight, scrollHeight, dom))
    /\ scrollListeners' = addEventListener(scrollListeners, SectionHandler(s))
    /\ resizeListeners' = addEventListener(resizeListeners, SectionHandler(s))
    /\ UNCHANGED <<windowVars, pathname, spVars, navVars, homeVars, demoVars, themeVars>>

\* useScrollSection: re-render with another sectionId: cleanup, then the effect
SsChangeSection(s) ==
    /\ ssMounted
    /\ s # sectionId
    /\ sectionId' = s
    /\ progress' = calculateProgress(s, progress,
                                     Window(scrollY, innerHeight, scrollHeight, dom))
    /\ scrollListeners' = addEventListener(
           removeEventListener(scrollListeners, SectionHandler(sectionId)),
           SectionHandler(s))
    /\ resizeListeners' = addEventListener(
           removeEventListener(resizeListeners, SectionHandler(sectionId)),
           SectionHandler(s))
    /\ UNCHANGED <<windowVars, pathname, ssMounted, spVars, navVars, homeVars, demoVars, themeVars>>

\* useScrollSection: the effect's cleanup
SsUnmount ==
    /\ ssMounted
    /\ ssMounted' = FALSE
    /\ scrollListeners' = removeEventListener(scrollListeners, SectionHandler(sectionId))
    /\ resizeListeners' = removeEventListener(resizeListeners, SectionHandler(sectionId))
    /\ UNCHANGED <<windowVars, pathname, sectionId, progress, spVars, navVars,
                   homeVars, demoVars, themeVars>>

\* mutant: the initial active section is the label of the first item, not its id
NavMount_initialLabel ==
    /\ ~navMounted
    /\ navMounted' = TRUE
    /\ scrolled' = FALSE
    /\ activeSection' = "Home"
    /\ scrollListeners' = addEventListener(scrollListeners, NavHandler(pathname = "/"))
    /\ HomePageCommit(FALSE, pathname = "/", hash)
    /\ UNCHANGED <<windowVars, resizeListeners, pathname, spVars, ssVars, hash,
                   requests, demoVars>>
    /\ ProjectDetailCommit(FALSE, pathname, IsProjectPath(pathname), pathname)

\* MainLayout mounts: Navigation's first render (useState(false),
\* useState('hero')) and effect, then the outlet's page
NavMount ==
    /\ ~navMounted
    /\ navMounted' = TRUE
    /\ scrolled' = FALSE
    /\ activeSection' = "hero"
    /\ scrollListeners' = addEventListener(scrollListeners, NavHandler(pathname = "/"))
    /\ HomePageCommit(FALSE, pathname = "/", hash)
    /\ UNCHANGED <<windowVars, resizeListeners, pathname, spVars, ssVars, hash,
                   requests, demoVars>>
    /\ ProjectDetailCommit(FALSE, pathname, IsProjectPath(pathname), pathname)

\* MainLayout unmounts: the cleanups of Navigation and of the outlet's page;
\* pending timers are not cleared
NavUnmount ==
    /\ navMounted
    /\ navMounted' = FALSE
    /\ scrollListeners' = removeEventListener(scrollListeners, NavHandler(pathname = "/"))
    /\ HomePageCommit(pathname = "/", FALSE, hash)
    /\ UNCHANGED <<windowVars, resizeListeners, pathname, scrolled, activeSection,
                   spVars, ssVars, hash, requests, demoVars>>
    /\ ProjectDetailCommit(IsProjectPath(pathname), pathname, FALSE, pathname)

\* mutant: Navigation's effect has no dependency, the first closure stays
Navigate_noRerun(p, h, sh, d) ==
    /\ <<p, h>> # <<pathname, hash>>
    /\ p = pathname => (sh = scrollHeight /\ d = dom)
    /\ pathname' = p
    /\ hash' = h
    /\ dom' = d
    /\ scrollHeight' = sh
    /\ scrollY' = IF IsProjectPath(p) /\ p # pathname THEN 0
                  ELSE Min(scrollY, MaxScrollTop(sh, innerHeight))
    /\ HomePageCommit(navMounted /\ pathname = "/", navMounted /\ p = "/", h)
    /\ UNCHANGED <<innerHeight, listenerVars, spVars, ssVars, navVars, requests, demoVars>>
    /\ ProjectDetailCommit(navMounted /\ IsProjectPath(pathname), pathname,
                           navMounted /\ IsProjectPath(p), p)

\* mutant: Navigation is mounted inside each page, a route change resets it
Navigate_remountsNavigation(p, h, sh, d) ==
    /\ <<p, h>> # <<pathname, hash>>
    /\ p = pathname => (sh = scrollHeight /\ d = dom)
    /\ pathname' = p
    /\ hash' = h
    /\ dom' = d
    /\ scrollHeight' = sh
    /\ scrollY' = IF IsProjectPath(p) /\ p # pathname THEN 0
                  ELSE Min(scrollY, MaxScrollTop(sh, innerHeight))
    /\ scrollListeners' =
         IF navMounted /\ (p = "/") # (pathname = "/")
         THEN addEventListener(
                  removeEventListener(scrollListeners, NavHandler(pathname = "/")),
                  NavHandler(p = "/"))
         ELSE scrollListeners
    /\ HomePageCommit(navMounted /\ pathname = "/", navMounted /\ p = "/", h)
    /\ scrolled' = IF p # pathname THEN FALSE ELSE scrolled
    /\ activeSection' = IF p # pathname THEN "hero" ELSE activeSection
    /\ UNCHANGED <<innerHeight, resizeListeners, spVars, ssVars, navMounted, requests,
                   demoVars>>
    /\ ProjectDetailCommit(navMounted /\ IsProjectPath(pathname), pathname,
                           navMounted /\ IsProjectPath(p), p)

\* the router commits the location p with fragment h: the outlet swaps pages
\* (the layout becomes d, sh high), ProjectDetail's effect scrolls to the top
\* when it mounts, Navigation re-renders (its effect re-runs when isHomePage
\* changed) and HomePage's effects run
Navigate(p, h, sh, d) ==
    /\ <<p, h>> # <<pathname, hash>>
    /\ p = pathname => (sh = scrollHeight /\ d = dom)
    /\ pathname' = p
    /\ hash' = h
    /\ dom' = d
    /\ scrollHeight' = sh
    /\ scrollY' = IF IsProjectPath(p) /\ p # pathname THEN 0
                  ELSE Min(scrollY, MaxScrollTop(sh, innerHeight))
    /\ scrollListeners' =
         IF navMounted /\ (p = "/") # (pathname = "/")
         THEN addEventListener(
                  removeEventListener(scrollListeners, NavHandler(pathname = "/")),
                  NavHandler(p = "/"))
         ELSE scrollListeners
    /\ HomePageCommit(navMounted /\ pathname = "/", navMounted /\ p = "/", h)
    /\ UNCHANGED <<innerHeight, resizeListeners, spVars, ssVars, navVars, requests, demoVars>>
    /\ ProjectDetailCommit(navMounted /\ IsProjectPath(pathname), pathname,
                           navMounted /\ IsProjectPath(p), p)

\* mutant: every item is rendered as a link, also on the home page
NavClick_alwaysLink(s, sh, d) ==
    /\ navMounted
    /\ Navigate("/", Fragment(s), sh, d)

\* mutant: handleNavClick scrolls on every route and the item never navigates
NavClick_alwaysScrollTo(s, sh, d) ==
    /\ navMounted
    /\ requests' = Append(requests, Request("scrollTo", s))
    /\ UNCHANGED <<windowVars, listenerVars, pathname, spVars, ssVars,
                   navVars, hash, clickListeners, timers, liveTimers, demoVars, themeVars>>

\* mutant: handleNavClick also highlights the clicked item at once
NavClick_setsActive(s, sh, d) ==
    /\ navMounted
    /\ pathname = "/"
    /\ requests' = Append(requests, Request("scrollTo", s))
    /\ activeSection' = s
    /\ UNCHANGED <<windowVars, listenerVars, pathname, spVars, ssVars,
                   navMounted, scrolled, hash, clickListeners, timers, liveTimers,
                   demoVars, themeVars>>

\* a click on the navigation item s: handleNavClick, then the element's own
\* action: a <button> on the home page, a <Link to="/#s"> elsewhere
NavClick(s, sh, d) ==
    /\ navMounted
    /\ IF pathname = "/"
       THEN /\ requests' = Append(requests, Request("scrollTo", s))
            /\ UNCHANGED <<windowVars, listenerVars, pathname, spVars, ssVars,
                           navVars, hash, clickListeners, timers, liveTimers, demoVars, themeVars>>
       ELSE Navigate("/", Fragment(s), sh, d)

\* a click on an in-page anchor <a href="#id"> reaches the document's listeners
AnchorClick(id) ==
    /\ clickListeners # <<>>
    /\ requests' = clickDispatch(clickListeners, requests, dom, id)
    /\ UNCHANGED <<windowVars, listenerVars, pathname, spVars, ssVars, navVars,
                   hash, clickListeners, timers, liveTimers, demoVars, themeVars>>

\* mutant: the newest pending timer fires first
TimerFire_newestFirst ==
    /\ timers # <<>>
    /\ timers' = SubSeq(timers, 1, Len(timers) - 1)
    /\ requests' = scrollIntoView(requests, "setTimeout", dom, timers[Len(timers)])
    /\ liveTimers' = Max(0, liveTimers - 1)
    /\ UNCHANGED <<windowVars, listenerVars, pathname, spVars, ssVars, navVars,
                   hash, clickListeners, demoVars, themeVars>>

\* the oldest pending timer fires: the callback of HomePage's second effect
TimerFire ==
    /\ timers # <<>>
    /\ timers' = Tail(timers)
    /\ requests' = scrollIntoView(requests, "setTimeout", dom, Head(timers))
    /\ liveTimers' = Min(liveTimers, Len(timers) - 1)
    /\ UNCHANGED <<windowVars, listenerVars, pathname, spVars, ssVars, navVars,
                   hash, clickListeners, demoVars, themeVars>>

----------------------------------------------------------------------------
(* The project demos and the Hero: initial data.  Text is a sequence of     *)
(* one-character strings, so that slicing and searching can be computed.   *)

\* the value null of a nullable id
Null == "null"

\* the value null of draggedTask, which has no task's id
NoTask == [id |-> Null]

\* initialTasks of TaskFlowDemo (description and tags are never read)
initialTasks ==
    << [id |-> "1", title |-> "Design user interface", status |-> "done",
        priority |-> "high", assignee |-> "Sarah Chen"],
       [id |-> "2", title |-> "Implement authentication", status |-> "inProgress",
        priority |-> "high", assignee |-> "Mike Ross"],
       [id |-> "3", title |-> "Set up database", status |-> "inProgress",
        priority |-> "medium", assignee |-> "Alex Kim"],
       [id |-> "4", title |-> "Write API endpoints", status |-> "todo",
        priority |-> "high", assignee |-> "Jordan Lee"],
       [id |-> "5", title |-> "Deploy to production", status |-> "todo",
        priority |-> "medium", assignee |-> "Taylor Swift"],
       [id |-> "6", title |-> "Write documentation", status |-> "todo",
        priority |-> "low", assignee |-> "Chris Evans"] >>

\* the initial formData of CheckoutDemo
initialFormData == [email |-> <<>>, cardNumber |-> <<>>, expiry |-> <<>>, cvv |-> <<>>]

\* fullText of Hero
fullText ==
    << "F", "u", "l", "l", "-", "S", "t", "a", "c", "k", " ", "E", "n",
       "g", "i", "n", "e", "e", "r", " ", "s", "p", "e", "c", "i", "a",
       "l", "i", "z", "e", "d", " ", "i", "n", " ", "G", "o", ",", " ",
       "W", "e", "b", "3", ",", " ", "a", "n", "d", " ", "D", "i", "s",
       "t", "r", "i", "b", "u", "t", "e", "d", " ", "S", "y", "s", "t",
       "e", "m", "s", "." >>

\* initialUsers of AdminPanelDemo
initialUsers ==
    << [id |-> 1, name |-> <<"J", "o", "h", "n", " ", "D", "o", "e">>, email |-> << "j", "o", "h", "n", "@", "e", "x", "a", "m", "p", "l", "e", ".",
                          "c", "o", "m" >>,
        role |-> "Admin", status |-> "active"],
       [id |-> 2, name |-> <<"J", "a", "n", "e", " ", "S", "m", "i", "t", "h">>, email |-> << "j", "a", "n", "e", "@", "e", "x", "a", "m", "p", "l", "e", ".",
                          "c", "o", "m" >>,
        role |-> "Editor", status |-> "active"],
       [id |-> 3, name |-> <<"B", "o", "b", " ", "J", "o", "h", "n", "s", "o", "n">>, email |-> << "b", "o", "b", "@", "e", "x", "a", "m", "p", "l", "e", ".", "c",
                          "o", "m" >>,
        role |-> "Viewer", status |-> "inactive"],
       [id |-> 4, name |-> << "A", "l", "i", "c", "e", " ", "W", "i", "l", "l", "i", "a", "m",
                          "s" >>, email |-> << "a", "l", "i", "c", "e", "@", "e", "x", "a", "m", "p", "l", "e",
                          ".", "c", "o", "m" >>,
        role |-> "Editor", status |-> "active"],
       [id |-> 5, name |-> << "C", "h", "a", "r", "l", "i", "e", " ", "B", "r", "o", "w", "n" >>, email |-> << "c", "h", "a", "r", "l", "i", "e", "@", "e", "x", "a", "m", "p",
                          "l", "e", ".", "c", "o", "m" >>,
        role |-> "Viewer", status |-> "active"] >>

\* initialBlocks of LandingBuilderDemo
initialBlocks ==
    << [id |-> "1", type |-> "hero", content |-> "Your Amazing Product"],
       [id |-> "2", type |-> "text",
        content |-> "Transform your business with our innovative solution."],
       [id |-> "3", type |-> "cta", content |-> "Get Started Now"] >>

----------------------------------------------------------------------------
(* Layouts the specifications draw their inputs from.                      *)

Ids == NavIds

NoElements == [id \in Ids |-> Absent]

\* small-integer geometry for the progress hooks: "work" anywhere, "blog" fixed
SectionIds == {"work", "blog"}

SmallElements ==
    {Absent} \cup {Element(t, h) : t \in 0..MaxTop, h \in 0..MaxHeight}

SmallLayouts ==
    {[id \in Ids |-> IF id = "work" THEN e
                     ELSE IF id = "blog" THEN Element(1, 1) ELSE Absent] :
        e \in SmallElements}

\* pixel geometry for the home page: the present sections are stacked in
\* navItems order, the first at offset f, each h high, g apart (other content
\* lies in a positive gap, a negative gap makes neighbours overlap)
Index(id) == CHOOSE i \in 1..Len(navItems) : navItems[i].id = id

Rank(id, m) == Cardinality({j \in m : Index(j) < Index(id)})

StackedLayout(m, f, h, g) ==
    [id \in Ids |-> IF id \in m THEN Element(f + Rank(id, m) * (h + g), h) ELSE Absent]

MountedSets == {NavIds} \cup {m \in SUBSET NavIds : Cardinality(m) <= MaxMounted}

FirstTops == {0, 200}

SectionHeights == {800}

SectionGaps == {0, 200, -100}

HomeLayouts ==
    {StackedLayout(m, f, h, g) :
        m \in MountedSets, f \in FirstTops, h \in SectionHeights, g \in SectionGaps}

NavScrollYs == {0, 60, 650, 700, 2000}

NavInnerHeights == {1000}

HomeDocHeights == {6000}

ProjectDocHeights == {3000}

Paths == {"/", "/projects/task-flow-ui"}

LayoutsOf(p) == IF p = "/" THEN HomeLayouts ELSE {NoElements}

Present(d) == {id \in Ids : d[id].present}

\* a resize moves and resizes the elements, it mounts and unmounts none
SmallResized(d) == {e \in SmallLayouts : Present(e) = Present(d)}

\* a resize moves and resizes the elements, it mounts and unmounts none
ResizedLayouts(p, d) ==
    IF p = "/"
    THEN {StackedLayout(Present(d), f, h, g) :
              f \in FirstTops, h \in SectionHeights, g \in SectionGaps}
    ELSE {NoElements}

DocHeightsOf(p) == IF p = "/" THEN HomeDocHeights ELSE ProjectDocHeights

----------------------------------------------------------------------------
(* Initial states: nothing is mounted yet, no handler is registered.       *)

InitComponents ==
    /\ scrollListeners = <<>>
    /\ resizeListeners = <<>>
    /\ spMounted = FALSE
    /\ scrollProgress = Num(0)
    /\ ssMounted = FALSE
    /\ sectionId = "work"
    /\ progress = Num(0)
    /\ navMounted = FALSE
    /\ scrolled = FALSE
    /\ activeSection = "hero"
    /\ clickListeners = <<>>
    /\ timers = <<>>
    /\ requests = <<>>
    /\ liveTimers = 0
    /\ tasks = initialTasks
    /\ draggedTask = NoTask
    /\ step = 1
    /\ formData = initialFormData
    /\ heroMounted = FALSE
    /\ displayedText = <<>>
    /\ currentIndex = 0
    /\ showCursor = TRUE
    /\ typingTimeout = <<>>
    /\ cursorInterval = 0
    /\ users = initialUsers
    /\ searchTerm = <<>>
    /\ selectedRole = "all"
    /\ blocks = initialBlocks
    /\ selectedBlock = Null
    /\ now = 0
    /\ rootStyle = NoStyle

\* useScrollProgress on small-integer layouts
InitProgress ==
    /\ InitComponents
    /\ pathname = "/"
    /\ hash = ""
    /\ innerHeight \in 1..MaxInner
    /\ scrollHeight \in 0..MaxDoc
    /\ scrollY = 0
    /\ dom = NoElements

NextProgress ==
    \/ SpMount
    \/ SpUnmount
    \/ \E y \in 0..MaxDoc : ScrollEvent(y)
    \/ \E ih \in 1..MaxInner, sh \in 0..MaxDoc : ResizeEvent(ih, sh, dom)

SpecProgress == InitProgress /\ [][NextProgress]_vars

\* useScrollSection on small-integer layouts
InitSection ==
    /\ InitComponents
    /\ pathname = "/"
    /\ hash = ""
    /\ innerHeight \in 0..MaxInner
    /\ scrollHeight = MaxDoc
    /\ scrollY = 0
    /\ dom \in SmallLayouts

NextSection ==
    \/ \E s \in SectionIds : SsMount(s)
    \/ \E s \in SectionIds : SsChangeSection(s)
    \/ SsUnmount
    \/ \E y \in 0..MaxDoc : ScrollEvent(y)
    \/ \E ih \in 0..MaxInner, d \in SmallResized(dom) : ResizeEvent(ih, scrollHeight, d)
    \/ \E d \in SmallLayouts : Reflow(scrollHeight, d)

SpecSection == InitSection /\ [][NextSection]_vars

\* Navigation on pixel layouts
InitNav ==
    /\ InitComponents
    /\ pathname \in Paths
    /\ hash = ""
    /\ innerHeight \in NavInnerHeights
    /\ scrollHeight \in DocHeightsOf(pathname)
    /\ scrollY = 0
    /\ dom \in LayoutsOf(pathname)

NextNav ==
    \/ NavMount
    \/ NavUnmount
    \/ \E y \in NavScrollYs : ScrollEvent(y)
    \/ \E ih \in NavInnerHeights, d \in ResizedLayouts(pathname, dom) :
           ResizeEvent(ih, scrollHeight, d)
    \/ \E d \in LayoutsOf(pathname) : Reflow(scrollHeight, d)
    \/ \E p \in Paths : \E sh \in DocHeightsOf(p), d \in LayoutsOf(p) :
           Navigate(p, "", sh, d)

SpecNav == InitNav /\ [][NextNav]_vars

----------------------------------------------------------------------------
(* Properties of useScrollProgress (SpecProgress).                         *)

Zero == Num(0)

One == Num(1)

\* a finite number in the closed range [0, 1]
InUnitRange(x) == IsFinite(x) /\ Leq(Zero, x) /\ Leq(x, One)

\* C1: when documentHeight <= viewportHeight the exposed document progress is
\* 0 for every scrollY, at mount and after every scroll or resize event
\* (never NaN, infinite, negative or 1).
C1_ZeroWhenDocumentFits ==
    (spMounted /\ scrollHeight <= innerHeight) => scrollProgress = Zero

\* C2: after mount and after any sequence of scroll and resize events the
\* exposed document progress is a number in [0, 1] for every layout state.
C2_DocumentProgressInUnitRange ==
    spMounted => InUnitRange(scrollProgress)

\* C3: for a layout with documentHeight > viewportHeight the document progress
\* is monotonically non-decreasing in scrollY over
\* [0, documentHeight - viewportHeight]: the exposed value is >= the value at
\* every smaller offset and <= the value at every larger one; it is 0 at
\* scrollY = 0 and 1 at scrollY = documentHeight - viewportHeight.
C3_MonotoneWithEndpoints ==
    (spMounted /\ scrollHeight > innerHeight) =>
        LET D == scrollHeight - innerHeight
        IN  /\ \A y \in 0..D :
                /\ y <= scrollY =>
                     Leq(calculateScrollProgress(y, innerHeight, scrollHeight),
                         scrollProgress)
                /\ y >= scrollY =>
                     Leq(scrollProgress,
                         calculateScrollProgress(y, innerHeight, scrollHeight))
            /\ scrollY = 0 => scrollProgress = Zero
            /\ scrollY = D => scrollProgress = One

\* C3 witness: a scrollable layout scrolled strictly inside its range, the
\* progress strictly between 0 and 1.
C3_Witness ==
    /\ spMounted
    /\ scrollHeight - innerHeight >= 2
    /\ 0 < scrollY /\ scrollY < scrollHeight - innerHeight
    /\ IsFinite(scrollProgress)
    /\ ~Leq(scrollProgress, Zero)
    /\ ~Leq(One, scrollProgress)

----------------------------------------------------------------------------
(* Properties of useScrollSection (SpecSection).                           *)

\* a step that delivered a scroll or a resize event
EventStep == ScrollEvent(scrollY') \/ ResizeEvent(innerHeight', scrollHeight', dom')

\* a step in which the mounted hook ran calculateProgress: mount, effect
\* re-run, or an event delivered while mounted
SectionEvaluated ==
    \/ SsMount(sectionId')
    \/ SsChangeSection(sectionId')
    \/ ssMounted /\ EventStep

\* what the claims say of the value computed for a present section at
\* document offset top, h high, scrolled to y in a viewport ih high
BoundaryAndFormula(v, top, h, y, ih) ==
    /\ top = y + ih => v = Zero
    /\ top + h = y => v = One
    /\ (top - ih <= y /\ y <= top + h) => v = JSDiv(y - (top - ih), ih + h)

\* C4 as stated: for every mounted section the computed value is exactly 0
\* when the section's top equals scrollY + viewportHeight, exactly 1 when its
\* bottom equals scrollY, and (scrollY - (sectionTop - viewportHeight)) /
\* (viewportHeight + sectionHeight) between those positions.
C4_AsStated ==
    [][(SectionEvaluated /\ dom'[sectionId'].present) =>
          BoundaryAndFormula(progress', dom'[sectionId'].top, dom'[sectionId'].height,
                             scrollY', innerHeight')]_vars

\* C4 amended: the same, for sections with viewportHeight + sectionHeight > 0
\* (with a zero range the two boundary positions coincide).
C4_BoundaryValuesAndFormula ==
    [][(/\ SectionEvaluated
        /\ dom'[sectionId'].present
        /\ innerHeight' + dom'[sectionId'].height > 0) =>
          BoundaryAndFormula(progress', dom'[sectionId'].top, dom'[sectionId'].height,
                             scrollY', innerHeight')]_vars

\* C4 witness: a section strictly inside its traversal, progress strictly
\* between 0 and 1, computed from the current layout.
C4_Witness ==
    /\ ssMounted
    /\ dom[sectionId].present
    /\ dom[sectionId].top - innerHeight < scrollY
    /\ scrollY < dom[sectionId].top + dom[sectionId].height
    /\ progress = JSDiv(scrollY - (dom[sectionId].top - innerHeight),
                        innerHeight + dom[sectionId].height)
    /\ ~Leq(progress, Zero)
    /\ ~Leq(One, progress)

\* C5: after any sequence of mount, scroll and resize events the exposed
\* section progress is a number in [0, 1] for every section geometry,
\* including viewportHeight + sectionHeight = 0; it is never NaN.
C5_SectionProgressInUnitRange ==
    ssMounted => InUnitRange(progress)

\* the formula of the section progress: clamp((scrollY - start) / range, 0, 1)
ClampedRatio(top, h, y, ih) ==
    LET start == top - ih
        end == top + h
        range == end - start
    IN  MathMax(Zero, MathMin(One, JSDiv(y - start, range)))

\* C6: when no element with the given sectionId exists as the hook evaluates,
\* the progress keeps its last value (0 at mount); when the element exists,
\* the evaluation of a scroll or resize event sets it from the formula.
C6_AbsentKeepsPresentRecomputes ==
    [][/\ (SsMount(sectionId') /\ ~dom'[sectionId'].present) => progress' = Zero
       /\ ((SsChangeSection(sectionId') \/ (ssMounted /\ EventStep))
              /\ ~dom'[sectionId'].present) => progress' = progress
       /\ (ssMounted /\ EventStep /\ dom'[sectionId'].present) =>
              progress' = ClampedRatio(dom'[sectionId'].top, dom'[sectionId'].height,
                                       scrollY', innerHeight')]_vars

\* C6 witness: the element is absent and the hook still shows a value other
\* than the initial 0, computed while the element was present.
C6_Witness ==
    /\ ssMounted
    /\ ~dom[sectionId].present
    /\ progress # Zero
    /\ InUnitRange(progress)

----------------------------------------------------------------------------
(* Properties of Navigation (SpecNav).                                     *)

\* positions in navItems of the sections that contain the probe line
Hits(d, y) ==
    {i \in 1..Len(navItems) :
        /\ d[navItems[i].id].present
        /\ d[navItems[i].id].top - y <= ProbeOffset
        /\ d[navItems[i].id].top + d[navItems[i].id].height - y >= ProbeOffset}

Least(S) == CHOOSE i \in S : \A j \in S : i <= j

\* a scroll event handled by the mounted Navigation on the home page
NavScrollStep == navMounted /\ pathname = "/" /\ ScrollEvent(scrollY')

\* sections A (0-800), B (800-1600), C (1600-2400), registered in that order
ThreeStacked == StackedLayout({"hero", "work", "experience"}, 0, 800, 0)

\* C7: on every scroll event handled on the home page, if some registered
\* section has top <= 150 and bottom >= 150, the active section becomes the
\* first such section in navItems order; for the three stacked sections it is
\* A after a scroll event at 0, B at 700 and C at 2000.
C7_FirstSectionOnProbeLine ==
    [][NavScrollStep =>
          /\ Hits(dom', scrollY') # {} =>
                 activeSection' = navItems[Least(Hits(dom', scrollY'))].id
          /\ dom' = ThreeStacked =>
                 /\ scrollY' = 0 => activeSection' = "hero"
                 /\ scrollY' = 700 => activeSection' = "work"
                 /\ scrollY' = 2000 => activeSection' = "experience"]_vars

\* C7 witness: the three stacked sections scrolled to 2000, C active.
C7_Witness ==
    /\ navMounted
    /\ pathname = "/"
    /\ dom = ThreeStacked
    /\ scrollY = 2000
    /\ activeSection = "experience"

\* C8: if on a scroll event no registered section has top <= 150 and
\* bottom >= 150, the active section keeps the value it had before the event.
C8_NoHitKeepsActiveSection ==
    [][(NavScrollStep /\ Hits(dom', scrollY') = {}) =>
          activeSection' = activeSection]_vars

\* C8 witness: scrolled below the bottom of the last present section, no
\* section on the probe line, and a section other than the initial one active.
C8_Witness ==
    /\ navMounted
    /\ pathname = "/"
    /\ Present(dom) # {}
    /\ \A id \in Present(dom) : dom[id].top + dom[id].height - scrollY < ProbeOffset
    /\ activeSection # "hero"
    /\ scrolled

Highlighted ==
    {i \in 1..Len(navItems) :
        navMounted /\ pathname = "/" /\ activeSection = navItems[i].id}

\* C9: in every reachable state activeSection is one of the navItems ids, so
\* exactly one nav button is highlighted while Navigation shows the home page
\* and never more than one.
C9_ExactlyOneActive ==
    /\ activeSection \in NavIds
    /\ Cardinality(Highlighted) <= 1
    /\ (navMounted /\ pathname = "/") => Cardinality(Highlighted) = 1

\* C9 witness: the home page scrolled, a section other than the initial one
\* highlighted.
C9_Witness ==
    /\ navMounted
    /\ pathname = "/"
    /\ scrollY > 0
    /\ activeSection \in NavIds \ {"hero"}
    /\ Highlighted = {Index(activeSection)}

----------------------------------------------------------------------------
(* The three components together.                                          *)

SpecScrollYs == {0, 700, 2000}

SpecInnerHeights == {700, 1000}

SpecLayouts(p) == IF p = "/" THEN {StackedLayout(NavIds, 0, 800, 0)} ELSE {NoElements}

Init ==
    /\ InitComponents
    /\ pathname \in Paths
    /\ hash = ""
    /\ innerHeight \in SpecInnerHeights
    /\ scrollHeight \in DocHeightsOf(pathname)
    /\ scrollY = 0
    /\ dom \in SpecLayouts(pathname)

Next ==
    \/ SpMount
    \/ SpUnmount
    \/ \E s \in SectionIds : SsMount(s)
    \/ \E s \in SectionIds : SsChangeSection(s)
    \/ SsUnmount
    \/ NavMount
    \/ NavUnmount
    \/ \E y \in SpecScrollYs : ScrollEvent(y)
    \/ \E ih \in SpecInnerHeights : ResizeEvent(ih, scrollHeight, dom)
    \/ \E p \in Paths : \E sh \in DocHeightsOf(p), d \in SpecLayouts(p) :
           Navigate(p, "", sh, d)

Spec == Init /\ [][Next]_vars

Count(listeners, owner) ==
    Cardinality({i \in DOMAIN listeners : listeners[i].owner = owner})

Registered(listeners, h) == \E i \in DOMAIN listeners : listeners[i] = h

\* every mounted component holds exactly one handler per event type it
\* subscribes to, the one of its current effect; an unmounted one holds none
ListenersMatchMounts ==
    /\ Count(scrollListeners, "Navigation") = (IF navMounted THEN 1 ELSE 0)
    /\ Count(resizeListeners, "Navigation") = 0
    /\ navMounted => Registered(scrollListeners, NavHandler(pathname = "/"))
    /\ Count(scrollListeners, "useScrollProgress") = (IF spMounted THEN 1 ELSE 0)
    /\ Count(resizeListeners, "useScrollProgress") = (IF spMounted THEN 1 ELSE 0)
    /\ Count(scrollListeners, "useScrollSection") = (IF ssMounted THEN 1 ELSE 0)
    /\ Count(resizeListeners, "useScrollSection") = (IF ssMounted THEN 1 ELSE 0)
    /\ ssMounted => /\ Registered(scrollListeners, SectionHandler(sectionId))
                    /\ Registered(resizeListeners, SectionHandler(sectionId))

\* no step taken while a component is unmounted changes that component's state
UnmountedFrozen ==
    /\ (~navMounted /\ ~navMounted') => UNCHANGED <<scrolled, activeSection>>
    /\ (~spMounted /\ ~spMounted') => UNCHANGED scrollProgress
    /\ (~ssMounted /\ ~ssMounted') => UNCHANGED progress

\* C10: after Navigation, useScrollProgress or useScrollSection unmounts none
\* of its handlers is registered and no later event changes its state; while
\* mounted, across effect re-runs, each holds exactly one handler per
\* subscribed event type.
C10_ListenersDetached ==
    [][ListenersMatchMounts' /\ UnmountedFrozen]_vars

\* C10 witness: all three were mounted, received events (Navigation also an
\* effect re-run on a project page) and are unmounted again with no handler
\* left on window.
C10_Witness ==
    /\ ~navMounted /\ ~spMounted /\ ~ssMounted
    /\ scrollListeners = <<>>
    /\ resizeListeners = <<>>
    /\ pathname # "/"
    /\ activeSection # "hero"
    /\ scrollProgress # Zero
    /\ progress # Zero

----------------------------------------------------------------------------
(* Navigation triggers: clicks on navigation items and in-page anchors,    *)
(* route changes with a fragment, and HomePage's deferred fragment scroll. *)

\* most scroll requests, issued or still pending in a timer, in one behaviour
MaxRequests == 2

ClickIds == {"work", "blog"}

HashesOf(p) == IF p = "/" THEN {""} \cup {Fragment(id) : id \in FragmentIds} ELSE {""}

Room == Len(timers) + Len(requests) < MaxRequests

InitRoute ==
    /\ InitComponents
    /\ pathname \in Paths
    /\ hash \in HashesOf(pathname)
    /\ innerHeight \in NavInnerHeights
    /\ scrollHeight \in DocHeightsOf(pathname)
    /\ scrollY = 0
    /\ dom \in SpecLayouts(pathname)

\* MainLayout is the root route: once mounted it stays until the document goes
NextRoute ==
    \/ (hash = "" \/ pathname # "/" \/ Room) /\ NavMount
    \/ \E y \in SpecScrollYs : ScrollEvent(y)
    \/ \E s \in ClickIds : \E sh \in DocHeightsOf("/"), d \in SpecLayouts("/") :
           Room /\ NavClick(s, sh, d)
    \/ \E id \in FragmentIds : Room /\ AnchorClick(id)
    \/ TimerFire
    \/ \E p \in Paths : \E h \in HashesOf(p), sh \in DocHeightsOf(p), d \in SpecLayouts(p) :
           (h = "" \/ Room) /\ Navigate(p, h, sh, d)

SpecRoute == InitRoute /\ [][NextRoute]_vars

\* a pending timer fires after its 100 ms: the event loop runs every callback
SpecRouteFair == SpecRoute /\ WF_vars(TimerFire)

TypeRoute == Len(timers) + Len(requests) <= MaxRequests

----------------------------------------------------------------------------
(* Properties of the navigation triggers (SpecRoute).                      *)

Last(seq) == seq[Len(seq)]

\* this step is a click on the navigation item s
NavClickStep(s) ==
    \E sh \in DocHeightsOf("/"), d \in SpecLayouts("/") : NavClick(s, sh, d)

\* C11: a click on the navigation item s while the route is "/" issues one
\* scroll request for s through scrollTo(s) and does not navigate: pathname
\* and fragment stay, the page (layout, click listener, timers) is not swapped
C11_HomeClickScrollsInPlace ==
    [][\A s \in ClickIds :
          (pathname = "/" /\ NavClickStep(s)) =>
              /\ requests' = Append(requests, Request("scrollTo", s))
              /\ pathname' = "/"
              /\ hash' = hash
              /\ UNCHANGED <<dom, scrollHeight, clickListeners, timers>>]_vars

C11_Witness ==
    /\ navMounted
    /\ pathname = "/"
    /\ hash = ""
    /\ requests = <<Request("scrollTo", "blog")>>

\* C12: a click on the navigation item s on a page other than "/" issues no
\* scroll request; the link navigates: the next route is "/" with fragment "#s"
C12_ElsewhereClickNavigates ==
    [][\A s \in ClickIds :
          (pathname # "/" /\ NavClickStep(s)) =>
              /\ requests' = requests
              /\ pathname' = "/"
              /\ hash' = Fragment(s)]_vars

C12_Witness ==
    /\ navMounted
    /\ pathname = "/"
    /\ hash = "#work"
    /\ timers = <<"work">>
    /\ requests = <<>>

\* number of requests in the log issued by one kind of call
CountVia(log, via) == Cardinality({i \in 1..Len(log) : log[i].via = via})

\* HomePage mounts in this step (its click listener appears)
HomeMountStep == clickListeners = <<>> /\ clickListeners' # <<>>

\* the oldest pending timer was set for the fragment "#id" and its element exists
FragmentPending(id) ==
    timers # <<>> /\ Head(timers) = id /\ getElementById(dom, id).present

----------------------------------------------------------------------------
(* Properties of the navigator's states and of its evaluation (SpecNav).   *)

\* Tracking: a scroll handler of Navigation that evaluates sections is attached
Tracking == Registered(scrollListeners, NavHandler(TRUE))

\* C15 as stated: Tracking exactly while Navigation is mounted on "/", and on
\* any other route no scroll handler of Navigation is attached
C15_AsStated ==
    /\ Tracking <=> (navMounted /\ pathname = "/")
    /\ pathname # "/" => Count(scrollListeners, "Navigation") = 0

\* C15: the navigator is Tracking exactly while Navigation is mounted and the
\* route is "/" (so leaving "/" ends Tracking and returning resumes it); on
\* another route its one scroll handler stays attached without evaluating
\* sections, and no scroll or resize event there changes the active section
C15_TrackingExactlyOnHome ==
    [][/\ Tracking' <=> (navMounted' /\ pathname' = "/")
       /\ (navMounted' /\ pathname' # "/")
            => /\ Count(scrollListeners', "Navigation") = 1
               /\ Registered(scrollListeners', NavHandler(FALSE))
       /\ (pathname # "/" /\ EventStep) => activeSection' = activeSection]_vars

C15_Witness ==
    /\ navMounted
    /\ pathname # "/"
    /\ scrollY = 60
    /\ scrolled
    /\ activeSection = "work"

\* a resize event delivered while the navigator is Tracking
NavResizeStep ==
    navMounted /\ pathname = "/" /\ ResizeEvent(innerHeight', scrollHeight', dom')

\* C16: the evaluation also runs on every resize event: after a resize that
\* leaves some registered section on the probe line, the active section is
\* the first such section of the new layout, without any scroll event
C16_ResizeReevaluates ==
    [][(NavResizeStep /\ Hits(dom', scrollY') # {}) =>
          activeSection' = navItems[Least(Hits(dom', scrollY'))].id]_vars

\* the orders in which a set of ids can be listed
Perms(S) ==
    {f \in [1..Cardinality(S) -> S] :
        \A i, j \in 1..Cardinality(S) : i # j => f[i] # f[j]}

AllOrders == Perms(NavIds)

IsAbsentIn(d) == [id \in NavIds |-> ~d[id].present]

\* the orders of navItems worth telling apart for the layout d: every order of
\* the mounted sections, the unmounted ones (which the loop skips) last
Orders(d) ==
    IF Present(d) = NavIds THEN AllOrders
    ELSE {o \o SelectSeq(NavSections, LAMBDA id : IsAbsentIn(d)[id]) : o \in Perms(Present(d))}

\* the ids of the registered sections on the probe line
HitIds(d, y) == {navItems[i].id : i \in Hits(d, y)}

\* C17 as stated: whatever the order of navItems, the evaluation yields the
\* same active section
C17_AsStated ==
    (navMounted /\ pathname = "/") =>
        \A o \in Orders(dom) :
            findActiveIn(o, 1, activeSection, Window(scrollY, innerHeight, scrollHeight, dom))
              = findActive(1, activeSection, Window(scrollY, innerHeight, scrollHeight, dom))

\* C17: the evaluation yields the same active section for every order of
\* navItems when at most one registered section is on the probe line; when
\* several are, it yields the one listed first in the order used
C17_OrderMattersOnlyForTies ==
    (navMounted /\ pathname = "/") =>
        \A o \in Orders(dom) :
            LET w == Window(scrollY, innerHeight, scrollHeight, dom)
                r == findActiveIn(o, 1, activeSection, w)
                H == HitIds(dom, scrollY)
            IN  /\ Cardinality(H) <= 1 => r = findActive(1, activeSection, w)
                /\ H # {} => r = o[Least({i \in 1..Len(o) : o[i] \in H})]

\* C17 witness: the boundary shared by hero and work lies on the probe line
C17_Witness ==
    /\ navMounted
    /\ pathname = "/"
    /\ dom = StackedLayout({"hero", "work"}, 0, 800, 0)
    /\ scrollY = 650
    /\ HitIds(dom, scrollY) = {"hero", "work"}
    /\ activeSection = "hero"

----------------------------------------------------------------------------
(* Frame of the active section (SpecRoute).                                *)

\* C18: the active section changes only in a scroll event handled by the
\* mounted Navigation on "/" (or when Navigation itself mounts and initialises
\* it); while Navigation stays mounted, a step that changes the route or the
\* fragment (a link, a page mount or unmount), issues a scroll request (a click)
\* or fires or sets a timer leaves it unchanged
C18_OnlyScrollHandlerWrites ==
    [][/\ activeSection' # activeSection
            => \/ NavScrollStep
               \/ ~navMounted /\ navMounted'
       /\ (/\ navMounted /\ navMounted'
           /\ \/ <<pathname, hash>>' # <<pathname, hash>>
              \/ clickListeners' # clickListeners
              \/ requests' # requests
              \/ timers' # timers)
            => activeSection' = activeSection]_vars

\* C18 witness: after scrolling into work, the item blog was clicked
C18_Witness ==
    /\ navMounted
    /\ pathname = "/"
    /\ scrollY = 700
    /\ activeSection = "work"
    /\ requests = <<Request("scrollTo", "blog")>>

----------------------------------------------------------------------------
(* Idempotence of the evaluation (SpecNav).                                *)

NavState == [scrolled |-> scrolled, activeSection |-> activeSection]

\* C19: after a scroll event handled on "/", running the handler again, once
\* or twice, on the same layout snapshot gives the state the first run left;
\* and when the section found is the one already active, the event leaves
\* the active section as it was
C19_EvaluationIdempotent ==
    [][NavScrollStep =>
          LET w == Window(scrollY', innerHeight', scrollHeight', dom')
              once == handleScroll(TRUE, NavState', w)
          IN  /\ once = NavState'
              /\ handleScroll(TRUE, once, w) = NavState'
              /\ (/\ Hits(dom', scrollY') # {}
                  /\ navItems[Least(Hits(dom', scrollY'))].id = activeSection)
                    => activeSection' = activeSection]_vars

\* C19 witness: work (200-1000) and blog (900-1700) overlap, the probe line
\* of a scroll event at 700 lies in work alone
C19_Witness ==
    /\ navMounted
    /\ pathname = "/"
    /\ dom = StackedLayout({"work", "blog"}, 200, 800, -100)
    /\ scrollY = 700
    /\ scrolled
    /\ activeSection = "work"

----------------------------------------------------------------------------
(* Recomputation of the document progress (SpecProgress).                  *)

\* the formula of the document progress: the ratio clamped to [0, 1], and 0
\* when the document is not higher than the viewport
DocumentFormula(y, ih, sh) ==
    IF sh - ih <= 0 THEN Zero
    ELSE MathMax(Zero, MathMin(JSDiv(y, sh - ih), One))

\* C20: the document progress is recomputed when the hook mounts and on every
\* scroll and resize event delivered while it is mounted, and then equals the
\* formula applied to the layout snapshot of that event, whatever happened
\* before; every other step leaves it unchanged
C20_RecomputedOnEventsOnly ==
    [][IF SpMount \/ (spMounted /\ EventStep)
       THEN scrollProgress' = DocumentFormula(scrollY', innerHeight', scrollHeight')
       ELSE scrollProgress' = scrollProgress]_vars

----------------------------------------------------------------------------
(* Unmounted sections during the evaluation (SpecNav).                     *)

\* some registered section listed before position i has no element
MissingBefore(d, i) == \E j \in 1..(i - 1) : ~d[navItems[j].id].present

\* C21: on a scroll event handled on "/", registered sections without an
\* element are passed over: when sections listed before the first one on the
\* probe line are unmounted, that later section still becomes active; and
\* when no registered section is mounted the active section is unchanged
C21_UnmountedSectionsSkipped ==
    [][NavScrollStep =>
          /\ (/\ Hits(dom', scrollY') # {}
              /\ MissingBefore(dom', Least(Hits(dom', scrollY'))))
                => activeSection' = navItems[Least(Hits(dom', scrollY'))].id
          /\ Present(dom') = {} => activeSection' = activeSection]_vars

\* C21 witness: hero, work, experience and skills are unmounted, blog
\* (0-800) is on the probe line and active
C21_Witness ==
    /\ navMounted
    /\ pathname = "/"
    /\ dom = StackedLayout({"blog", "contact"}, 0, 800, 200)
    /\ scrollY = 60
    /\ activeSection = "blog"

----------------------------------------------------------------------------
(* The active section across route changes (SpecNav).                      *)

\* C22: the active section is "hero" when Navigation mounts, whatever the
\* layout; a route change while Navigation is mounted (to a project page,
\* where the scroll position is reset to the top, or back to "/") keeps
\* Navigation mounted and leaves the active section as it was
C22_ActiveSectionSurvivesRoutes ==
    [][/\ (~navMounted /\ navMounted') => activeSection' = "hero"
       /\ (navMounted /\ pathname' # pathname)
            => /\ navMounted'
               /\ activeSection' = activeSection
               /\ IsProjectPath(pathname') => scrollY' = 0]_vars

\* C22 witness: back on "/" at the top, where hero is on the probe line, with
\* the section that was active before leaving
C22_Witness ==
    /\ navMounted
    /\ pathname = "/"
    /\ dom = StackedLayout(NavIds, 0, 800, 0)
    /\ scrollY = 0
    /\ activeSection = "experience"

----------------------------------------------------------------------------
(* Order of the deferred fragment scrolls (SpecRoute).                     *)

\* the requests of the log issued by one kind of call, oldest first
RequestsVia(log, via) == SelectSeq(log, LAMBDA r : r.via = via)

\* HomePage is mounted at a fragment and no timer is pending
FragmentSettled == clickListeners # <<>> /\ hash # "" /\ timers = <<>>

\* C23 as stated: once no timer is pending, the last scroll-into-view issued
\* by a timer targets the most recent fragment
C23_AsStated ==
    FragmentSettled =>
        /\ RequestsVia(requests, "setTimeout") # <<>>
        /\ Last(RequestsVia(requests, "setTimeout")).id = substring1(hash)

\* C23: a location change that leaves HomePage mounted at a non-empty fragment
\* sets exactly one timer for its id, behind those pending; a timer leaves the
\* queue only by firing, oldest first, and then issues the request for its id
\* if that element exists; so once no timer is pending, the last request
\* issued by a timer targets the most recent fragment, if its element exists
C23_FragmentScrollsInOrder ==
    [][/\ (<<pathname, hash>>' # <<pathname, hash>> /\ clickListeners' # <<>> /\ hash' # "")
            => timers' = Append(timers, substring1(hash'))
       /\ timers' # timers
            => \/ \E id \in FragmentIds : timers' = Append(timers, id)
               \/ /\ timers # <<>>
                  /\ timers' = Tail(timers)
                  /\ requests' = scrollIntoView(requests, "setTimeout", dom, Head(timers))
       /\ (FragmentSettled' /\ getElementById(dom', substring1(hash')).present)
            => /\ RequestsVia(requests', "setTimeout") # <<>>
               /\ Last(RequestsVia(requests', "setTimeout")).id = substring1(hash')]_vars

\* C23 witness: the fragment changed from "#work" to "#blog" within 100 ms,
\* both timers have fired
C23_Witness ==
    /\ clickListeners # <<>>
    /\ hash = "#blog"
    /\ timers = <<>>
    /\ requests = <<Request("setTimeout", "work"), Request("setTimeout", "blog")>>

----------------------------------------------------------------------------
(* Deferred fragment scrolls and unmounting (SpecRoute).                   *)

\* the oldest pending timer was set by a HomePage that has unmounted since
StaleTimerFires == TimerFire /\ Len(timers) > liveTimers

\* C24: a timer set by a HomePage that has unmounted since issues no
\* scroll-into-view when it fires, whether the user stayed away or came back
C24_StaleTimerNeverScrolls ==
    [][StaleTimerFires => requests' = requests]_vars

----------------------------------------------------------------------------
(* The project demos and the Hero.  Each demo is a component of its own,   *)
(* mounted on a project page; it shares no state with the scroll engine.   *)

\* a project page is open, nothing of the scroll engine is mounted
InitDemo ==
    /\ InitComponents
    /\ pathname = "/projects/task-flow-ui"
    /\ hash = ""
    /\ innerHeight \in NavInnerHeights
    /\ scrollHeight \in ProjectDocHeights
    /\ scrollY = 0
    /\ dom = NoElements

----------------------------------------------------------------------------
(* TaskFlowDemo (src/unnamed/part_003).                                     *)

Columns == {"todo", "inProgress", "done"}

\* onDragStart of the card of the task at position i
handleDragStart(i) ==
    /\ i \in 1..Len(tasks)
    /\ draggedTask' = tasks[i]
    /\ UNCHANGED <<tasks, engineVars, checkoutVars, heroVars, adminVars, builderVars>>

\* onDragEnd of a card
handleDragEnd ==
    /\ draggedTask' = NoTask
    /\ UNCHANGED <<tasks, engineVars, checkoutVars, heroVars, adminVars, builderVars>>

\* mutant: the dragged task is matched by its status instead of its id
handleDrop_byStatus(status) ==
    /\ IF draggedTask = NoTask
       THEN UNCHANGED <<tasks, draggedTask>>
       ELSE /\ tasks' = [i \in 1..Len(tasks) |->
                            IF tasks[i].status = draggedTask.status
                            THEN [tasks[i] EXCEPT !.status = status]
                            ELSE tasks[i]]
            /\ draggedTask' = NoTask
    /\ UNCHANGED <<engineVars, checkoutVars, heroVars, adminVars, builderVars>>

\* onDrop of the column status
handleDrop(status) ==
    /\ IF draggedTask = NoTask
       THEN UNCHANGED <<tasks, draggedTask>>
       ELSE /\ tasks' = [i \in 1..Len(tasks) |->
                            IF tasks[i].id = draggedTask.id
                            THEN [tasks[i] EXCEPT !.status = status]
                            ELSE tasks[i]]
            /\ draggedTask' = NoTask
    /\ UNCHANGED <<engineVars, checkoutVars, heroVars, adminVars, builderVars>>

NextKanban ==
    \/ \E i \in 1..Len(initialTasks) : handleDragStart(i)
    \/ handleDragEnd
    \/ \E c \in Columns : handleDrop(c)

SpecKanban == InitDemo /\ [][NextKanban]_vars

\* the task list is the initial one up to the statuses
SameTasksUpToStatus ==
    /\ Len(tasks) = Len(initialTasks)
    /\ \A i \in 1..Len(tasks) :
          [tasks[i] EXCEPT !.status = initialTasks[i].status] = initialTasks[i]

\* C25: the task list always holds the 6 initial tasks in their order with
\* every field but status unchanged; a drop on column c while a task is
\* dragged sets the status of that task to c and changes no other task; a
\* drop while no task is dragged changes nothing; after a drop or a drag-end
\* no task is dragged
C25_KanbanKeepsTasks ==
    [][/\ SameTasksUpToStatus'
       /\ Len(tasks') = 6
       /\ \A c \in Columns :
            handleDrop(c) =>
                /\ draggedTask' = NoTask
                /\ draggedTask = NoTask => tasks' = tasks
                /\ draggedTask # NoTask =>
                     \A i \in 1..Len(tasks) :
                        tasks'[i] = IF tasks[i].id = draggedTask.id
                                    THEN [tasks[i] EXCEPT !.status = c]
                                    ELSE tasks[i]
       /\ handleDragEnd => (draggedTask' = NoTask /\ tasks' = tasks)
       /\ (\E i \in 1..Len(tasks) : handleDragStart(i)) => tasks' = tasks]_vars

\* C25 witness: task 4 was dragged from To Do and dropped on Done
C25_Witness ==
    /\ draggedTask = NoTask
    /\ tasks[4].status = "done"
    /\ \A i \in (1..6) \ {4} : tasks[i] = initialTasks[i]

----------------------------------------------------------------------------
(* CheckoutDemo (src/components/ProjectDemos/CheckoutDemo.tsx).            *)

\* value.slice(0, n)
slice0(s, n) == SubSeq(s, 1, Min(n, Len(s)))

\* value.replace(/\s/g, '')
StripSpaces(s) == SelectSeq(s, LAMBDA c : c # " ")

RECURSIVE Group4(_)
\* match(/.{1,4}/g).join(' ') on a non-empty text without whitespace
Group4(s) ==
    IF Len(s) <= 4 THEN s
    ELSE SubSeq(s, 1, 4) \o <<" ">> \o Group4(SubSeq(s, 5, Len(s)))

\* formatCardNumber: groups of four, or the value itself when nothing matches
formatCardNumber(value) ==
    IF StripSpaces(value) = <<>> THEN value ELSE Group4(StripSpaces(value))

\* texts a user types into a field
TypedValues ==
    { <<>>,
      <<" ">>,
      <<"a", "@", "b", ".", "i", "o">>,
      <<"4", "2", "4", "2", "4">>,
      <<"4", "2", "4", "2", " ", "4", "2", "4", "2", " ", "4", "2", "4", "2", " ", "4", "2", "4", "2", " ", "9">> }

Fields == {"email", "cardNumber", "expiry", "cvv"}

\* the panel rendered for step k: {step === k && (...)}
PanelShown(k) == step = k

\* the panel a field's input is rendered in
PanelOf(field) == IF field = "email" THEN 1 ELSE 2

\* mutant: the upper guard is missing
handleNext_unguarded ==
    /\ step' = step + 1
    /\ UNCHANGED <<formData, engineVars, kanbanVars, heroVars, adminVars, builderVars>>

handleNext ==
    /\ step' = IF step < 3 THEN step + 1 ELSE step
    /\ UNCHANGED <<formData, engineVars, kanbanVars, heroVars, adminVars, builderVars>>

handleBack ==
    /\ step' = IF step > 1 THEN step - 1 ELSE step
    /\ UNCHANGED <<formData, engineVars, kanbanVars, heroVars, adminVars, builderVars>>

\* onChange of the input of a field, the user having typed value
handleChange(field, value) ==
    /\ PanelShown(PanelOf(field))
    /\ formData' =
         [formData EXCEPT ![field] =
             IF field = "cardNumber" THEN formatCardNumber(slice0(value, 19))
             ELSE IF field = "cvv" THEN slice0(value, 3)
             ELSE value]
    /\ UNCHANGED <<step, engineVars, kanbanVars, heroVars, adminVars, builderVars>>

NextCheckout ==
    \/ handleNext
    \/ handleBack
    \/ \E field \in Fields, value \in TypedValues : handleChange(field, value)

SpecCheckout == InitDemo /\ [][NextCheckout]_vars

\* C26: step is always 1, 2 or 3 and exactly one of the three panels is
\* shown; Next moves one step up and does nothing at step 3, Back moves one
\* step down and does nothing at step 1, neither touches formData; an edit
\* of a field leaves step unchanged
C26_CheckoutSteps ==
    [][/\ step' \in {1, 2, 3}
       /\ Cardinality({k \in 1..3 : PanelShown(k)'}) = 1
       /\ handleNext => /\ formData' = formData
                        /\ step' = IF step = 3 THEN 3 ELSE step + 1
       /\ handleBack => /\ formData' = formData
                        /\ step' = IF step = 1 THEN 1 ELSE step - 1
       /\ (\E field \in Fields, value \in TypedValues : handleChange(field, value))
            => step' = step]_vars

\* C26 witness: the summary panel is reached with an email and a card entered
C26_Witness ==
    /\ step = 3
    /\ formData.email = <<"a", "@", "b", ".", "i", "o">>
    /\ formData.cardNumber = <<"4", "2", "4", "2", " ", "4">>
    /\ formData.cvv = <<>>

----------------------------------------------------------------------------
(* Hero typing animation (src/components/ProofMetrics/ProofMetrics.tsx).   *)
(* A state update is followed by a render whose effects run in a later     *)
(* step (HeroCommit); the two state updates of the timeout callback are    *)
(* applied in one render.                                                  *)

\* fullText[i] of JavaScript: the character at the 0-based index i, or
\* undefined, which string concatenation spells out
charAt(i) == IF i + 1 \in 1..Len(fullText) THEN fullText[i + 1] ELSE "undefined"

\* the render of Hero is to be followed by a run of the typing effect: the
\* first render, or a render with a new currentIndex
effectDue ==
    /\ heroMounted
    /\ IF typingTimeout # <<>> THEN typingTimeout[1] # currentIndex
       ELSE cursorInterval = 0

\* mutant: the effect sets the typing timeout whatever currentIndex is
typingEffect_alwaysTimeout(i) ==
    /\ typingTimeout' = <<i>>
    /\ cursorInterval' = 0

\* the typing effect, its cleanup first: the pending timer of the previous
\* run is cleared, then the timeout or the cursor interval is set
typingEffect(i) ==
    IF i < Len(fullText)
    THEN /\ typingTimeout' = <<i>>
         /\ cursorInterval' = 0
    ELSE /\ typingTimeout' = <<>>
         /\ cursorInterval' = 1

\* Hero is rendered for the first time, with the initial state
HeroMount ==
    /\ ~heroMounted
    /\ heroMounted' = TRUE
    /\ displayedText' = <<>>
    /\ currentIndex' = 0
    /\ showCursor' = TRUE
    /\ UNCHANGED <<typingTimeout, cursorInterval>>
    /\ UNCHANGED <<engineVars, kanbanVars, checkoutVars, adminVars, builderVars>>

\* the effects of a render run: the reset effect on mount only (it sets the
\* values the state already has), the typing effect when its deps changed
HeroCommit ==
    /\ effectDue
    /\ typingEffect(currentIndex)
    /\ UNCHANGED <<heroMounted, displayedText, currentIndex, showCursor>>
    /\ UNCHANGED <<engineVars, kanbanVars, checkoutVars, adminVars, builderVars>>

\* the typing timeout fires: its callback appends fullText[currentIndex] of
\* its closure and increments currentIndex
HeroTimeoutFire ==
    /\ typingTimeout # <<>>
    /\ displayedText' = displayedText \o <<charAt(Head(typingTimeout))>>
    /\ currentIndex' = currentIndex + 1
    /\ typingTimeout' = Tail(typingTimeout)
    /\ UNCHANGED <<heroMounted, showCursor, cursorInterval>>
    /\ UNCHANGED <<engineVars, kanbanVars, checkoutVars, adminVars, builderVars>>

\* the cursor interval ticks
HeroCursorTick ==
    /\ cursorInterval > 0
    /\ showCursor' = ~showCursor
    /\ UNCHANGED <<heroMounted, displayedText, currentIndex, typingTimeout, cursorInterval>>
    /\ UNCHANGED <<engineVars, kanbanVars, checkoutVars, adminVars, builderVars>>

\* Hero unmounts: the effect's cleanup clears the pending timer and the
\* component's state is gone
HeroUnmount ==
    /\ heroMounted
    /\ heroMounted' = FALSE
    /\ displayedText' = <<>>
    /\ currentIndex' = 0
    /\ showCursor' = TRUE
    /\ typingTimeout' = <<>>
    /\ cursorInterval' = 0
    /\ UNCHANGED <<engineVars, kanbanVars, checkoutVars, adminVars, builderVars>>

NextHero ==
    \/ HeroMount
    \/ HeroCommit
    \/ HeroTimeoutFire
    \/ HeroCursorTick
    \/ HeroUnmount

SpecHero == InitDemo /\ [][NextHero]_vars

\* a set timeout fires and a scheduled render commits
SpecHeroFair ==
    /\ SpecHero
    /\ WF_vars(HeroTimeoutFire)
    /\ WF_vars(HeroCommit)

TypingComplete == currentIndex = Len(fullText)

\* C27: displayedText is always the first currentIndex characters of
\* fullText, with 0 <= currentIndex <= fullText.length; at most one typing
\* timeout or cursor interval is pending; the cursor of a mounted Hero
\* toggles only once currentIndex = fullText.length; a Hero that stays
\* mounted eventually completes the typing, and currentIndex never advances
\* past the length
C27_TypingAnimation ==
    /\ [](/\ currentIndex \in 0..Len(fullText)
          /\ displayedText = SubSeq(fullText, 1, currentIndex)
          /\ Len(typingTimeout) + cursorInterval <= 1)
    /\ [][/\ (heroMounted' /\ showCursor' # showCursor) => TypingComplete
          /\ TypingComplete => currentIndex' \in {currentIndex, 0}]_vars
    /\ heroMounted ~> (TypingComplete \/ ~heroMounted)

\* C27 witness: the text is typed out, the interval runs and the cursor has
\* been toggled off
C27_Witness ==
    /\ heroMounted
    /\ displayedText = fullText
    /\ cursorInterval = 1
    /\ typingTimeout = <<>>
    /\ ~showCursor

----------------------------------------------------------------------------
(* ProjectDetail's theme across routes (SpecTheme).                        *)

ThemePaths == {"/"} \cup {ProjectPath(id) : id \in RouteIds}

\* ProjectDetail is the outlet's page
ProjectDetailMounted == navMounted /\ IsProjectPath(pathname)

\* if (!project) return <Navigate to="/" replace />: the redirect commits
\* after the render that mounted ProjectDetail with an id of no project
Redirect(sh, d) ==
    /\ ProjectDetailMounted
    /\ projectIdOf(pathname) \notin ProjectIds
    /\ Navigate("/", "", sh, d)

InitTheme ==
    /\ InitComponents
    /\ pathname \in ThemePaths
    /\ hash = ""
    /\ innerHeight \in SpecInnerHeights
    /\ scrollHeight \in DocHeightsOf(pathname)
    /\ scrollY = 0
    /\ dom \in SpecLayouts(pathname)

NextTheme ==
    \/ NavMount
    \/ \E y \in SpecScrollYs : ScrollEvent(y)
    \/ \E p \in ThemePaths : \E sh \in DocHeightsOf(p), d \in SpecLayouts(p) :
           Navigate(p, "", sh, d)
    \/ \E sh \in DocHeightsOf("/"), d \in SpecLayouts("/") : Redirect(sh, d)

SpecTheme == InitTheme /\ [][NextTheme]_vars

ThemeSet == \E n \in PropertyNames : rootStyle[n] # Unset

\* C28: a custom property is set only while ProjectDetail is mounted with
\* the id of a project that has a theme; the properties then hold that
\* project's colours, also after a change from another project; with no
\* ProjectDetail mounted none of the three is set
C28_ThemeOnlyWhileThemedMounted ==
    /\ ThemeSet => (ProjectDetailMounted /\ projectIdOf(pathname) \in ProjectIds)
    /\ (ProjectDetailMounted /\ projectIdOf(pathname) \in ProjectIds) =>
           /\ rootStyle["--project-primary"] = projectThemes[projectIdOf(pathname)].primary
           /\ rootStyle["--project-secondary"] = projectThemes[projectIdOf(pathname)].secondary
           /\ rootStyle["--project-accent"] = projectThemes[projectIdOf(pathname)].accent
    /\ ~ProjectDetailMounted => ~ThemeSet

----------------------------------------------------------------------------
(* AdminPanelDemo (src/components/ProjectDemos/AdminPanelDemo.tsx).        *)

UpperCase == <<"A", "B", "C", "D", "E", "F", "G", "H", "I", "J", "K", "L", "M", "N", "O", "P", "Q", "R", "S", "T", "U", "V", "W", "X", "Y", "Z">>
LowerCase == <<"a", "b", "c", "d", "e", "f", "g", "h", "i", "j", "k", "l", "m", "n", "o", "p", "q", "r", "s", "t", "u", "v", "w", "x", "y", "z">>

\* String.prototype.toLowerCase on the letters A to Z
toLowerCase(s) ==
    [i \in 1..Len(s) |->
        IF \E k \in 1..Len(UpperCase) : UpperCase[k] = s[i]
        THEN LowerCase[CHOOSE k \in 1..Len(UpperCase) : UpperCase[k] = s[i]]
        ELSE s[i]]

\* String.prototype.includes
includes(s, t) ==
    \E i \in 0..(Len(s) - Len(t)) : SubSeq(s, i + 1, i + Len(t)) = t

\* the predicate of users.filter
matchesFilter(user, term, role) ==
    /\ \/ includes(toLowerCase(user.name), toLowerCase(term))
       \/ includes(toLowerCase(user.email), toLowerCase(term))
    /\ (role = "all" \/ user.role = role)

filterUsers(us, term, role) == SelectSeq(us, LAMBDA user : matchesFilter(user, term, role))

filteredUsers == filterUsers(users, searchTerm, selectedRole)

\* mutant: the button only deactivates
toggled_deactivates(us, id) ==
    [i \in 1..Len(us) |->
        IF us[i].id = id THEN [us[i] EXCEPT !.status = "inactive"] ELSE us[i]]

\* users.map of toggleUserStatus
toggled(us, id) ==
    [i \in 1..Len(us) |->
        IF us[i].id = id
        THEN [us[i] EXCEPT !.status = IF us[i].status = "active" THEN "inactive"
                                       ELSE "active"]
        ELSE us[i]]

\* the toggle button of a row of the table, one row per filtered user
toggleUserStatus(id) ==
    /\ \E i \in 1..Len(filteredUsers) : filteredUsers[i].id = id
    /\ users' = toggled(users, id)
    /\ UNCHANGED <<searchTerm, selectedRole>>
    /\ UNCHANGED <<engineVars, kanbanVars, checkoutVars, heroVars, builderVars>>

SearchTerms ==
    { <<>>,
      <<"J", "O">>,
      <<"e", "x", "a", "m", "p", "l", "e">>,
      <<"z", "z">> }

Roles == {"all", "Admin", "Editor", "Viewer"}

setSearchTerm(term) ==
    /\ searchTerm' = term
    /\ UNCHANGED <<users, selectedRole>>
    /\ UNCHANGED <<engineVars, kanbanVars, checkoutVars, heroVars, builderVars>>

setSelectedRole(role) ==
    /\ selectedRole' = role
    /\ UNCHANGED <<users, searchTerm>>
    /\ UNCHANGED <<engineVars, kanbanVars, checkoutVars, heroVars, builderVars>>

NextAdmin ==
    \/ \E id \in {u.id : u \in {initialUsers[i] : i \in 1..Len(initialUsers)}} :
           toggleUserStatus(id)
    \/ \E term \in SearchTerms : setSearchTerm(term)
    \/ \E role \in Roles : setSelectedRole(role)

SpecAdmin == InitDemo /\ [][NextAdmin]_vars

RECURSIVE IsSubSeq(_, _)
\* s is t with some elements left out
IsSubSeq(s, t) ==
    IF s = <<>> THEN TRUE
    ELSE IF t = <<>> THEN FALSE
    ELSE IF Head(s) = Head(t) THEN IsSubSeq(Tail(s), Tail(t))
    ELSE IsSubSeq(s, Tail(t))

UserIds == {users[i].id : i \in 1..Len(users)}

\* C29: a toggle of user id changes that user's status to the other of
\* 'active' and 'inactive' and nothing else in the list; a second toggle of
\* the same id restores the list; a new search term or role leaves the list
\* as it is; the filtered list is a sub-sequence of users
C29_AdminPanel ==
    /\ [][/\ \A id \in UserIds : toggleUserStatus(id) =>
               /\ Len(users') = Len(users)
               /\ \A i \in 1..Len(users) :
                    IF users[i].id = id
                    THEN /\ users'[i].status # users[i].status
                         /\ users'[i].status \in {"active", "inactive"}
                         /\ [users'[i] EXCEPT !.status = users[i].status] = users[i]
                    ELSE users'[i] = users[i]
          /\ (\E term \in SearchTerms : setSearchTerm(term)) => users' = users
          /\ (\E role \in Roles : setSelectedRole(role)) => users' = users]_vars
    /\ [](/\ \A id \in UserIds : toggled(toggled(users, id), id) = users
          /\ IsSubSeq(filteredUsers, users))

\* C29 witness: a search in capitals and a role leave one row, whose user
\* has been activated
C29_Witness ==
    /\ searchTerm = <<"J", "O">>
    /\ selectedRole = "Viewer"
    /\ Len(filteredUsers) = 1
    /\ filteredUsers[1].id = 3
    /\ filteredUsers[1].status = "active"
    /\ Len(users) = Len(initialUsers)

----------------------------------------------------------------------------
(* LandingBuilderDemo (src/components/ProjectDemos/LandingBuilderDemo.tsx). *)

MaxBlocks == 4

MaxNow == 1

\* Date.now().toString() at the millisecond t of the session
timestamp(t) == "170000000000" \o ToString(t)

BlockTypes == {"hero", "cta", "text"}

\* the content of a new block of a type
defaultContent(type) ==
    IF type = "hero" THEN "New Heading"
    ELSE IF type = "cta" THEN "Button Text"
    ELSE "New paragraph text"

\* what the user types into a block's input
TypedContents == {"Edited"}

BlockIds == {blocks[i].id : i \in 1..Len(blocks)}

\* a millisecond passes
Tick ==
    /\ now < MaxNow
    /\ now' = now + 1
    /\ UNCHANGED <<blocks, selectedBlock>>
    /\ UNCHANGED <<engineVars, kanbanVars, checkoutVars, heroVars, adminVars>>

addBlock(type) ==
    /\ Len(blocks) < MaxBlocks
    /\ blocks' = Append(blocks, [id |-> timestamp(now), type |-> type,
                                 content |-> defaultContent(type)])
    /\ UNCHANGED <<selectedBlock, now>>
    /\ UNCHANGED <<engineVars, kanbanVars, checkoutVars, heroVars, adminVars>>

\* onChange of the input of the block with this id
updateBlock(id, content) ==
    /\ id \in BlockIds
    /\ blocks' = [i \in 1..Len(blocks) |->
                     IF blocks[i].id = id THEN [blocks[i] EXCEPT !.content = content]
                     ELSE blocks[i]]
    /\ UNCHANGED <<selectedBlock, now>>
    /\ UNCHANGED <<engineVars, kanbanVars, checkoutVars, heroVars, adminVars>>

\* the delete button of the block with this id
deleteBlock(id) ==
    /\ id \in BlockIds
    /\ blocks' = SelectSeq(blocks, LAMBDA block : block.id # id)
    /\ selectedBlock' = IF selectedBlock = id THEN Null ELSE selectedBlock
    /\ UNCHANGED now
    /\ UNCHANGED <<engineVars, kanbanVars, checkoutVars, heroVars, adminVars>>

\* a click on the item of the block with this id
selectBlock(id) ==
    /\ id \in BlockIds
    /\ selectedBlock' = id
    /\ UNCHANGED <<blocks, now>>
    /\ UNCHANGED <<engineVars, kanbanVars, checkoutVars, heroVars, adminVars>>

\* a dragged item passes its neighbour: onReorder={setBlocks} with the two swapped
reorder(i) ==
    /\ i \in 1..(Len(blocks) - 1)
    /\ blocks' = [blocks EXCEPT ![i] = blocks[i + 1], ![i + 1] = blocks[i]]
    /\ UNCHANGED <<selectedBlock, now>>
    /\ UNCHANGED <<engineVars, kanbanVars, checkoutVars, heroVars, adminVars>>

NextBuilder ==
    \/ Tick
    \/ \E type \in BlockTypes : addBlock(type)
    \/ \E id \in BlockIds, content \in TypedContents : updateBlock(id, content)
    \/ \E id \in BlockIds : deleteBlock(id)
    \/ \E id \in BlockIds : selectBlock(id)
    \/ \E i \in 1..MaxBlocks : reorder(i)

SpecBuilder == InitDemo /\ [][NextBuilder]_vars

\* the blocks as a bag
BlockBag(bs) == [b \in {bs[i] : i \in 1..Len(bs)} |->
                    Cardinality({i \in 1..Len(bs) : bs[i] = b})]

\* C30: selectedBlock is null or the id of one of the blocks; a deletion
\* removes one block, the one with the id, and clears the selection exactly
\* when that block was selected; an update changes the content of one block,
\* the one with the id, and nothing else; a reorder keeps the blocks
C30_BuilderBlocks ==
    /\ [](selectedBlock = Null \/ selectedBlock \in BlockIds)
    /\ [][/\ \A id \in BlockIds : deleteBlock(id) =>
               /\ Len(blocks') = Len(blocks) - 1
               /\ id \notin BlockIds'
               /\ selectedBlock' = IF selectedBlock = id THEN Null ELSE selectedBlock
          /\ \A id \in BlockIds : \A content \in TypedContents :
               updateBlock(id, content) =>
                 /\ Len(blocks') = Len(blocks)
                 /\ Cardinality({i \in 1..Len(blocks) : blocks'[i] # blocks[i]}) <= 1
                 /\ \A i \in 1..Len(blocks) :
                      /\ blocks'[i] # blocks[i] => blocks[i].id = id
                      /\ [blocks'[i] EXCEPT !.content = blocks[i].content] = blocks[i]
          /\ (\E i \in 1..MaxBlocks : reorder(i)) => BlockBag(blocks') = BlockBag(blocks)
         ]_vars
====
